---- MODULE Spec2Model ----
(***************************************************************************)
(* Model of ElectrochemicalApp (src/CholestroCalc.py): the live-data       *)
(* callback, the measurement and connection handlers and the CSV           *)
(* save/load handlers, together with the instrument SDK's delivery of      *)
(* samples on its own acquisition thread.                                  *)
(*                                                                         *)
(* Numbers stand for floats in tenths: the integer 12 is the float 1.2,    *)
(* -1 is -0.1.  Text (labels, CSV cells) is a sequence of one-character    *)
(* strings so that lower-casing, substring search, formatting and parsing  *)
(* are computed and not assumed.                                           *)
(***************************************************************************)
EXTENDS Integers, Sequences, FiniteSets, TLC

VARIABLES
    current_data,     \* self.current_data: column name -> list of values
    origin,           \* ghost, parallel to current_data: TRUE for a value that a
                      \* superseded measurement produced
    arrived,          \* ghost: the samples the callback loop took since the last
                      \* reset, kept while replaced is FALSE
    replaced,         \* ghost: open_data replaced the store since the last reset
    statusBar,        \* the message last shown by self.statusBar.showMessage
    connect_btn,      \* self.connect_btn.text()
    start_btn,        \* self.start_btn.isEnabled()
    technique_combo,  \* self.technique_combo.currentText()
    param_widgets,    \* self.param_widgets: technique -> (parameter -> value)
    connected,        \* instrument session: manager.is_connected()
    sdkMeasuring,     \* instrument session: a measurement is being acquired
    sweep,            \* instrument session: points the measurement has produced
    measure_called,   \* the last start_measurement press reached manager.measure
    cb,               \* the acquisition thread's position inside new_data_callback
    file,             \* content of the CSV file that save_data writes
    savedTrace,       \* ghost: the store as it was when file was last written
    closed            \* the main window has been closed

vars == <<current_data, origin, arrived, replaced, statusBar,
          connect_btn, start_btn, technique_combo, param_widgets, connected,
          sdkMeasuring, sweep, measure_called, cb, file, savedTrace, closed>>

-----------------------------------------------------------------------------
(* Bounds of the model *)

\* the SDK begins a delivery only while every column is shorter than this, and
\* only traces with no column longer than this are saved
MaxLen == 2
\* a measurement produces at most this many points
MaxSweep == 2

-----------------------------------------------------------------------------
(* Text *)

UpperChars == <<"A","B","C","D","E","F","G","H","I","J","K","L","M",
                "N","O","P","Q","R","S","T","U","V","W","X","Y","Z">>
LowerChars == <<"a","b","c","d","e","f","g","h","i","j","k","l","m",
                "n","o","p","q","r","s","t","u","v","w","x","y","z">>

\* str.lower() on one character
LowerChar(c) ==
    IF \E i \in 1..Len(UpperChars) : UpperChars[i] = c
    THEN LowerChars[CHOOSE i \in 1..Len(UpperChars) : UpperChars[i] = c]
    ELSE c

\* str.lower()
Lower(s) == [i \in 1..Len(s) |-> LowerChar(s[i])]

\* the Python test  sub in s  on strings
Contains(sub, s) ==
    \E i \in 0..(Len(s) - Len(sub)) : SubSeq(s, i + 1, i + Len(sub)) = sub

Potential == <<"p","o","t","e","n","t","i","a","l">>
Current   == <<"c","u","r","r","e","n","t">>

\* A dictionary key of new_data: a string, or an object that is no string
Str(s)  == [isStr |-> TRUE, text |-> s]
NotStr  == [isStr |-> FALSE, text |-> <<>>]

LblEPotential == Str(<<"E","_">> \o Potential)
LblICurrent   == Str(<<"I","_">> \o Current)
LblICURRENT   == Str(<<"I","_","C","U","R","R","E","N","T">>)
LblTime       == Str(<<"t","i","m","e">>)
LblBoth       == Str(<<"C","u","r","r","e","n","t","_","P","o","t","e","n","t","i","a","l">>)

\* The values of sweep point k: the applied potential and the measured current
SweepPotential(k) == 13 * k - 12
SweepCurrent(k) == 13 * k - 5

\* The dictionaries the SDK can hand to the callback for sweep point k, in
\* iteration order
Sample(l, v) == [type |-> l, value |-> v]
\* a potential and a current reading
PairDelivery(k) ==
    <<Sample(LblEPotential, SweepPotential(k)), Sample(LblICurrent, SweepCurrent(k))>>
\* a label that holds both words, and a label that holds neither
MixedDelivery(k) ==
    <<Sample(LblBoth, SweepPotential(k)), Sample(LblTime, k)>>
\* a key that is no string, between two readings
MalformedDelivery(k) ==
    <<Sample(LblICURRENT, SweepCurrent(k)), Sample(NotStr, k),
      Sample(LblEPotential, SweepPotential(k))>>

WellFormedDeliveries(k) == {PairDelivery(k), MixedDelivery(k)}
Deliveries(k) == WellFormedDeliveries(k) \cup {MalformedDelivery(k)}

-----------------------------------------------------------------------------
(* The Trace Store *)

EmptyTrace == [voltage |-> <<>>, current |-> <<>>]
EmptyOrigin == [voltage |-> <<>>, current |-> <<>>]

HasCol(d, k) == k \in DOMAIN d

\* a slip: the value is put in front of the list
AppendCol_Front(d, k, x) == [d EXCEPT ![k] = <<x>> \o @]

\* list.append on one column of the dictionary
AppendCol(d, k, x) == [d EXCEPT ![k] = Append(@, x)]

\* zip(a, b): pairs by index up to the shorter list
Zip(a, b) ==
    [i \in 1..(IF Len(a) < Len(b) THEN Len(a) ELSE Len(b)) |-> <<a[i], b[i]>>]

\* a slip: the two branches in the other order
Classify_CurrentFirst(d, type) ==
    IF ~type.isStr THEN "raise"
    ELSE IF Contains(Current, Lower(type.text))
         THEN IF HasCol(d, "current") THEN "current" ELSE "raise"
    ELSE IF Contains(Potential, Lower(type.text))
         THEN IF HasCol(d, "voltage") THEN "voltage" ELSE "raise"
    ELSE "skip"

\* The outcome of classifying and appending one dictionary entry: "voltage" or
\* "current" (appended there), "skip" (no branch taken) or "raise"
Classify(d, type) ==
    IF ~type.isStr THEN "raise"                       \* type.lower(): AttributeError
    ELSE IF Contains(Potential, Lower(type.text))
         THEN IF HasCol(d, "voltage") THEN "voltage" ELSE "raise"   \* KeyError
    ELSE IF Contains(Current, Lower(type.text))
         THEN IF HasCol(d, "current") THEN "current" ELSE "raise"   \* KeyError
    ELSE "skip"

\* update_plot: what it leaves in the status bar (its own try/except)
PlotFails(d) ==
    \/ ~HasCol(d, "voltage") \/ ~HasCol(d, "current")          \* KeyError
    \/ Len(d["voltage"]) # Len(d["current"])                    \* ax.plot: ValueError

\* update_data_display: fails on a missing column, else writes the zipped rows
DisplayFails(d) == ~HasCol(d, "voltage") \/ ~HasCol(d, "current")

\* The status bar after update_plot and update_data_display
StatusAfterRefresh(d, before) ==
    IF DisplayFails(d) THEN <<"Error updating data display">>
    ELSE IF PlotFails(d) THEN <<"Error updating plot">>
    ELSE before

-----------------------------------------------------------------------------
(* new_data_callback, on the SDK's acquisition thread *)

Idle == [pc |-> "idle"]

\* The SDK invokes new_data_callback(new_data) for the measurement it acquires
SdkDeliver(d) ==
    /\ ~closed
    /\ sdkMeasuring
    /\ cb.pc = "idle"
    /\ \A k \in DOMAIN current_data : Len(current_data[k]) < MaxLen
    /\ sweep < MaxSweep
    /\ d \in Deliveries(sweep)
    /\ sweep' = sweep + 1
    /\ cb' = [pc |-> "loop", new_data |-> d, idx |-> 1, stale |-> FALSE]
    /\ UNCHANGED <<current_data, origin, arrived, replaced, statusBar,
                   connect_btn, start_btn, technique_combo, param_widgets,
                   connected, sdkMeasuring, measure_called, file, savedTrace, closed>>

\* One iteration of  for type, value in new_data.items()
CallbackEntry ==
    /\ cb.pc = "loop"
    /\ cb.idx <= Len(cb.new_data)
    /\ LET e == cb.new_data[cb.idx]
           c == Classify(current_data, e.type)
       IN /\ arrived' = IF replaced THEN arrived ELSE Append(arrived, e)
          /\ IF c = "raise"
             THEN /\ statusBar' = <<"Error in data callback">>
                  /\ cb' = Idle
                  /\ UNCHANGED <<current_data, origin>>
             ELSE /\ cb' = [cb EXCEPT !.idx = @ + 1]
                  /\ statusBar' = statusBar
                  /\ IF c = "skip"
                     THEN UNCHANGED <<current_data, origin>>
                     ELSE /\ current_data' = AppendCol(current_data, c, e.value)
                          /\ origin' = AppendCol(origin, c, cb.stale)
    /\ UNCHANGED <<replaced, connect_btn, start_btn, technique_combo,
                   param_widgets, connected, sdkMeasuring, sweep, measure_called, file,
                   savedTrace, closed>>

\* After the loop: self.update_plot(); self.update_data_display()
CallbackRefresh ==
    /\ cb.pc = "loop"
    /\ cb.idx > Len(cb.new_data)
    /\ statusBar' = StatusAfterRefresh(current_data, statusBar)
    /\ cb' = Idle
    /\ UNCHANGED <<current_data, origin, arrived, replaced, connect_btn, start_btn,
                   technique_combo, param_widgets, connected, sdkMeasuring,
                   sweep, measure_called, file, savedTrace, closed>>

-----------------------------------------------------------------------------
(* Technique configuration *)

Techniques == {"DPV", "CV", "SWV"}

\* create_parameter_groups: the spin boxes of each technique with their default
\* values, in thousandths
Presets ==
    [DPV |-> [StartPotential |-> -500, EndPotential |-> 500, StepPotential |-> 5,
              PulseAmplitude |-> 50, PulseWidth |-> 50, ScanRate |-> 50],
     CV  |-> [StartPotential |-> -500, FirstVertexPotential |-> 500,
              SecondVertexPotential |-> -500, StepPotential |-> 10,
              ScanRate |-> 100, NumberOfScans |-> 1000],
     SWV |-> [StartPotential |-> -500, EndPotential |-> 500, StepPotential |-> 4,
              Amplitude |-> 20, Frequency |-> 25000]]

\* a slip: the DPV branch reads a key that no spin box has
RequiredKeys_Typo(technique) ==
    CASE technique = "DPV" -> {"StartPotential", "EndPotential", "StepPotential",
                               "PulseHeight", "PulseWidth", "ScanRate"}
      [] technique = "CV"  -> {"StartPotential", "FirstVertexPotential",
                               "SecondVertexPotential", "StepPotential",
                               "ScanRate", "NumberOfScans"}
      [] technique = "SWV" -> {"StartPotential", "EndPotential", "StepPotential",
                               "Amplitude", "Frequency"}
      [] OTHER -> {}

\* The dictionary keys each branch of start_measurement reads from params
RequiredKeys(technique) ==
    CASE technique = "DPV" -> {"StartPotential", "EndPotential", "StepPotential",
                               "PulseAmplitude", "PulseWidth", "ScanRate"}
      [] technique = "CV"  -> {"StartPotential", "FirstVertexPotential",
                               "SecondVertexPotential", "StepPotential",
                               "ScanRate", "NumberOfScans"}
      [] technique = "SWV" -> {"StartPotential", "EndPotential", "StepPotential",
                               "Amplitude", "Frequency"}
      [] OTHER -> {}

Raise == [technique |-> "raise"]

\* int(x) of a value in thousandths: truncation toward zero
IntOf(x) == IF x >= 0 THEN x \div 1000 ELSE -((-x) \div 1000)

\* start_measurement, lines 298-328: the method object, or Raise when a lookup
\* raises KeyError
BuildMethod(technique, widgets) ==
    IF technique \notin DOMAIN widgets THEN Raise      \* self.param_widgets[technique]
    ELSE LET params == widgets[technique] IN
         IF ~(RequiredKeys(technique) \subseteq DOMAIN params) THEN Raise
         ELSE CASE technique = "DPV" ->
                    [technique |-> "DPV",
                     e_begin |-> params["StartPotential"],
                     e_end |-> params["EndPotential"],
                     e_step |-> params["StepPotential"],
                     pulse_height |-> params["PulseAmplitude"],
                     pulse_width |-> params["PulseWidth"],
                     scan_rate |-> params["ScanRate"]]
                [] technique = "CV" ->
                    [technique |-> "CV",
                     e_begin |-> params["StartPotential"],
                     e_vertex1 |-> params["FirstVertexPotential"],
                     e_vertex2 |-> params["SecondVertexPotential"],
                     e_step |-> params["StepPotential"],
                     scan_rate |-> params["ScanRate"],
                     n_scans |-> IntOf(params["NumberOfScans"])]
                [] technique = "SWV" ->
                    [technique |-> "SWV",
                     e_begin |-> params["StartPotential"],
                     e_end |-> params["EndPotential"],
                     e_step |-> params["StepPotential"],
                     e_amplitude |-> params["Amplitude"],
                     frequency |-> params["Frequency"]]
                [] OTHER -> Raise     \* method is unbound: UnboundLocalError

\* technique_combo.currentTextChanged -> update_parameters
update_parameters(technique) ==
    /\ ~closed
    /\ technique \in Techniques
    /\ technique_combo' = technique
    /\ UNCHANGED <<current_data, origin, arrived, replaced, statusBar,
                   connect_btn, start_btn, param_widgets, connected, sdkMeasuring,
                   sweep, measure_called, cb, file, savedTrace, closed>>

-----------------------------------------------------------------------------
(* Measurement control, on the UI thread *)

MeasureOutcomes == {"handle", "none", "raise"}

\* A callback still running for the measurement that has just been superseded
Superseded(c) == IF c.pc = "loop" THEN [c EXCEPT !.stale = TRUE] ELSE c

\* start_measurement; outcome is what manager.measure does when it is called
start_measurement(outcome) ==
    /\ ~closed
    /\ start_btn
    /\ LET method == BuildMethod(technique_combo, param_widgets) IN
       IF method = Raise
       THEN /\ statusBar' = <<"Error starting measurement">>
            /\ measure_called' = FALSE
            /\ UNCHANGED <<current_data, origin, arrived, replaced, sdkMeasuring,
                           sweep, cb>>
       ELSE /\ current_data' = EmptyTrace
            /\ origin' = EmptyOrigin
            /\ arrived' = <<>>
            /\ replaced' = FALSE
            /\ IF connected
               THEN /\ measure_called' = TRUE
                    /\ CASE outcome = "handle" ->
                              /\ statusBar' = <<"Measurement started">>
                              /\ sdkMeasuring' = TRUE
                              /\ sweep' = 0
                              /\ cb' = Superseded(cb)
                         [] outcome = "none" ->
                              /\ statusBar' = <<"Failed to start measurement">>
                              /\ UNCHANGED <<sdkMeasuring, sweep, cb>>
                         [] OTHER ->
                              /\ statusBar' = <<"Error starting measurement">>
                              /\ UNCHANGED <<sdkMeasuring, sweep, cb>>
               ELSE /\ statusBar' = <<"No device connected">>
                    /\ measure_called' = FALSE
                    /\ UNCHANGED <<sdkMeasuring, sweep, cb>>
    /\ UNCHANGED <<connect_btn, start_btn, technique_combo, param_widgets,
                   connected, file, savedTrace, closed>>

\* stop_measurement; ok is whether manager.stop_measurement returns normally.
\* A callback already running is not interrupted.
stop_measurement(ok) ==
    /\ ~closed
    /\ IF ok
       THEN /\ sdkMeasuring' = FALSE
            /\ statusBar' = <<"Measurement stopped">>
       ELSE /\ statusBar' = <<"Error stopping measurement">>
            /\ UNCHANGED sdkMeasuring
    /\ UNCHANGED <<current_data, origin, arrived, replaced, connect_btn,
                   start_btn, technique_combo, param_widgets, connected, sweep,
                   measure_called, cb, file, savedTrace, closed>>

\* The instrument finishes the measurement by itself
SdkFinish ==
    /\ ~closed
    /\ sdkMeasuring
    /\ sdkMeasuring' = FALSE
    /\ UNCHANGED <<current_data, origin, arrived, replaced, statusBar,
                   connect_btn, start_btn, technique_combo, param_widgets,
                   connected, sweep, measure_called, cb, file, savedTrace, closed>>

-----------------------------------------------------------------------------
(* Connection, on the UI thread *)

Device == "PalmSens"

\* connect_device (the second definition, which is the one the class keeps).
\* discover, connect, disconnect are the SDK's outcomes; stillMeasuring is what
\* becomes of an acquisition when the session is disconnected under it.
connect_device(discover, connect, disconnect, stillMeasuring) ==
    /\ ~closed
    /\ IF connect_btn = "Connect Device"
       THEN CASE discover = "raise" ->
                   /\ statusBar' = <<"Connection error">>
                   /\ UNCHANGED <<connect_btn, start_btn, connected, sdkMeasuring>>
              [] discover = "none" ->
                   /\ statusBar' = <<"No devices found">>
                   /\ UNCHANGED <<connect_btn, start_btn, connected, sdkMeasuring>>
              [] OTHER ->
                   CASE connect = "ok" ->
                          /\ connected' = TRUE
                          /\ connect_btn' = "Disconnect"
                          /\ statusBar' = <<"Connected to", Device>>
                          /\ start_btn' = TRUE
                          /\ UNCHANGED sdkMeasuring
                     [] connect = "fail" ->
                          /\ statusBar' = <<"Failed to connect to device">>
                          /\ UNCHANGED <<connect_btn, start_btn, connected, sdkMeasuring>>
                     [] OTHER ->
                          /\ statusBar' = <<"Connection error">>
                          /\ UNCHANGED <<connect_btn, start_btn, connected, sdkMeasuring>>
       ELSE CASE disconnect = "ok" ->
                   /\ connected' = FALSE
                   /\ sdkMeasuring' = (sdkMeasuring /\ stillMeasuring)
                   /\ connect_btn' = "Connect Device"
                   /\ statusBar' = <<"Disconnected from device">>
                   /\ start_btn' = FALSE
              [] disconnect = "fail" ->
                   /\ statusBar' = <<"Error disconnecting">>
                   /\ UNCHANGED <<connect_btn, start_btn, connected, sdkMeasuring>>
              [] OTHER ->
                   /\ statusBar' = <<"Connection error">>
                   /\ UNCHANGED <<connect_btn, start_btn, connected, sdkMeasuring>>
    /\ UNCHANGED <<current_data, origin, arrived, replaced, technique_combo,
                   param_widgets, sweep, measure_called, cb, file, savedTrace,
                   closed>>

\* closeEvent: disconnects when the button reads "Disconnect", then the window
\* is gone
closeEvent(disconnect) ==
    /\ ~closed
    /\ closed' = TRUE
    /\ IF connect_btn = "Disconnect" /\ disconnect = "ok"
       THEN /\ connected' = FALSE
            /\ sdkMeasuring' = FALSE
       ELSE UNCHANGED <<connected, sdkMeasuring>>
    /\ UNCHANGED <<current_data, origin, arrived, replaced, statusBar,
                   connect_btn, start_btn, technique_combo, param_widgets,
                   sweep, measure_called, cb, file, savedTrace>>

-----------------------------------------------------------------------------
(* CSV text, as pandas writes and reads it *)

DigitChars == <<"0","1","2","3","4","5","6","7","8","9">>

DigitChar(k) == DigitChars[k + 1]
DigitValue(c) == (CHOOSE i \in 1..Len(DigitChars) : DigitChars[i] = c) - 1
IsDigit(c) == \E i \in 1..Len(DigitChars) : DigitChars[i] = c

RECURSIVE DigitsOf(_)
\* the decimal digits of a natural number
DigitsOf(k) ==
    IF k < 10 THEN <<DigitChar(k)>>
    ELSE DigitsOf(k \div 10) \o <<DigitChar(k % 10)>>

RECURSIVE NumberOf(_)
\* the natural number a non-empty digit string denotes
NumberOf(s) ==
    IF Len(s) = 1 THEN DigitValue(s[1])
    ELSE 10 * NumberOf(SubSeq(s, 1, Len(s) - 1)) + DigitValue(s[Len(s)])

Abs(n) == IF n < 0 THEN -n ELSE n

\* to_csv on a float column: repr of the float (a value in tenths)
FormatFloat(n) ==
    (IF n < 0 THEN <<"-">> ELSE <<>>)
        \o DigitsOf(Abs(n) \div 10) \o <<".">> \o <<DigitChar(Abs(n) % 10)>>

\* read_csv on a numeric cell with one decimal: the value in tenths
ParseFloat(cell) ==
    LET neg  == Len(cell) > 0 /\ cell[1] = "-"
        body == IF neg THEN SubSeq(cell, 2, Len(cell)) ELSE cell
        dot  == CHOOSE i \in 1..Len(body) : body[i] = "."
        whole == SubSeq(body, 1, dot - 1)
        frac  == SubSeq(body, dot + 1, Len(body))
        mag  == 10 * NumberOf(whole) + NumberOf(frac)
    IN IF neg THEN -mag ELSE mag

\* Insertion order of the dictionary's keys.  Every dictionary the program
\* builds here has its keys in this order: the literal {'voltage': [], 'current': []},
\* or the header of a file that was read.
KeyOrder(d) == SelectSeq(<<"voltage", "current">>, LAMBDA k : k \in DOMAIN d)

\* pd.DataFrame(dict of lists): ValueError unless all lists have one length
FrameRaises(d) ==
    \E j, k \in DOMAIN d : Len(d[j]) # Len(d[k])

FrameLen(d) == Len(d[CHOOSE k \in DOMAIN d : TRUE])

\* a slip: the two lists are written under each other's name
ToCsv_Swapped(d) ==
    LET cols == KeyOrder(d) IN
    [header |-> cols,
     rows   |-> [r \in 1..FrameLen(d) |->
                    [c \in 1..Len(cols) |-> FormatFloat(d[cols[Len(cols) + 1 - c]][r])]]]

\* df.to_csv(filename, index=False): the header line, then one line per row
ToCsv(d) ==
    LET cols == KeyOrder(d) IN
    [header |-> cols,
     rows   |-> [r \in 1..FrameLen(d) |->
                    [c \in 1..Len(cols) |-> FormatFloat(d[cols[c]][r])]]]

NoFile == [header |-> <<>>, rows |-> <<>>, exists |-> FALSE]
EmptyFile == [header |-> <<>>, rows |-> <<>>]

\* pd.read_csv raises: no such file, or no columns to parse (EmptyDataError)
ReadRaises(f) == f = NoFile \/ Len(f.header) = 0

\* pd.read_csv(filename).to_dict('list')
ReadCsv(f) ==
    [k \in {f.header[c] : c \in 1..Len(f.header)} |->
        LET c == CHOOSE i \in 1..Len(f.header) : f.header[i] = k
        IN [r \in 1..Len(f.rows) |-> ParseFloat(f.rows[r][c])]]

\* The paths the file dialogs can return: "" when the dialog is cancelled
SavedPath == "trace.csv"
PreviousPath == "previous.csv"
NoCurrentPath == "voltage_only.csv"
EmptyPath == "empty.csv"
OpenPaths == {"", SavedPath, PreviousPath, NoCurrentPath, EmptyPath}
SavePaths == {"", SavedPath}

\* Files that exist beside the one save_data writes
FileAt(path) ==
    CASE path = SavedPath -> file
      [] path = PreviousPath ->
            [header |-> <<"voltage", "current">>,
             rows |-> << << <<"0",".","5">>, <<"-","1",".","2">> >> >>]
      [] path = NoCurrentPath ->
            [header |-> <<"voltage">>, rows |-> << << <<"0",".","5">> >> >>]
      [] OTHER -> EmptyFile

\* save_data; writable is whether to_csv can write the path
save_data(filename, writable) ==
    /\ ~closed
    /\ \A k \in DOMAIN current_data : Len(current_data[k]) <= MaxLen
    /\ IF filename = ""
       THEN UNCHANGED <<statusBar, file, savedTrace>>
       ELSE IF FrameRaises(current_data) \/ ~writable
       THEN /\ statusBar' = <<"Error saving data">>
            /\ UNCHANGED <<file, savedTrace>>
       ELSE /\ file' = ToCsv(current_data)
            /\ savedTrace' = current_data
            /\ statusBar' = <<"Data saved to", filename>>
    /\ UNCHANGED <<current_data, origin, arrived, replaced, connect_btn,
                   start_btn, technique_combo, param_widgets, connected,
                   sdkMeasuring, sweep, measure_called, cb, closed>>

\* open_data.  update_plot and update_data_display catch their own exceptions,
\* and the status they show is overwritten by the message of success.
open_data(filename) ==
    /\ ~closed
    /\ IF filename = ""
       THEN UNCHANGED <<current_data, origin, arrived, replaced, statusBar>>
       ELSE IF ReadRaises(FileAt(filename))
       THEN /\ statusBar' = <<"Error loading data">>
            /\ UNCHANGED <<current_data, origin, arrived, replaced>>
       ELSE LET loaded == ReadCsv(FileAt(filename)) IN
            /\ current_data' = loaded
            /\ origin' = [k \in DOMAIN loaded |-> [i \in 1..Len(loaded[k]) |-> FALSE]]
            /\ arrived' = <<>>
            /\ replaced' = TRUE
            /\ statusBar' = <<"Data loaded from", filename>>
    /\ UNCHANGED <<connect_btn, start_btn, technique_combo, param_widgets,
                   connected, sdkMeasuring, sweep, measure_called, cb, file,
                   savedTrace, closed>>

-----------------------------------------------------------------------------
(* The program *)

Outcomes == {"ok", "fail", "raise"}

Init ==
    /\ current_data = EmptyTrace
    /\ origin = EmptyOrigin
    /\ arrived = <<>>
    /\ replaced = FALSE
    /\ statusBar = <<>>
    /\ connect_btn = "Connect Device"
    /\ start_btn = TRUE
    /\ technique_combo = "DPV"
    /\ param_widgets = Presets
    /\ connected = FALSE
    /\ sdkMeasuring = FALSE
    /\ sweep = 0
    /\ measure_called = FALSE
    /\ cb = Idle
    /\ file = NoFile
    /\ savedTrace = EmptyTrace
    /\ closed = FALSE

Next ==
    \/ \E d \in UNION {Deliveries(k) : k \in 0..MaxSweep} : SdkDeliver(d)
    \/ CallbackEntry
    \/ CallbackRefresh
    \/ SdkFinish
    \/ \E t \in Techniques : update_parameters(t)
    \/ \E o \in MeasureOutcomes : start_measurement(o)
    \/ \E ok \in BOOLEAN : stop_measurement(ok)
    \/ \E dis \in {"raise", "none", "found"}, con \in Outcomes, disc \in Outcomes,
          still \in BOOLEAN : connect_device(dis, con, disc, still)
    \/ \E disc \in Outcomes : closeEvent(disc)
    \/ \E f \in SavePaths, w \in BOOLEAN : save_data(f, w)
    \/ \E f \in OpenPaths : open_data(f)

Spec == Init /\ [][Next]_vars

-----------------------------------------------------------------------------
(* Parts of the program, each with the environment that its properties need.
   Every behaviour of a part is a behaviour of Spec: a part only leaves some
   buttons unpressed and some outcomes of the SDK untried. *)

\* Acquisition: connection, measurement control, the callback, loading a file
NextAcquire ==
    \/ \E d \in UNION {Deliveries(k) : k \in 0..MaxSweep} : SdkDeliver(d)
    \/ CallbackEntry
    \/ CallbackRefresh
    \/ SdkFinish
    \/ \E o \in MeasureOutcomes : start_measurement(o)
    \/ \E ok \in BOOLEAN : stop_measurement(ok)
    \/ \E dis \in {"raise", "none", "found"}, con \in Outcomes, disc \in Outcomes,
          still \in BOOLEAN : connect_device(dis, con, disc, still)
    \/ \E f \in OpenPaths : open_data(f)

SpecAcquire == Init /\ [][NextAcquire]_vars

\* Persistence: saving and loading traces that a working instrument produced
NextPersist ==
    \/ \E d \in UNION {WellFormedDeliveries(k) : k \in 0..MaxSweep} : SdkDeliver(d)
    \/ CallbackEntry
    \/ CallbackRefresh
    \/ start_measurement("handle")
    \/ connect_device("found", "ok", "ok", FALSE)
    \/ \E f \in SavePaths, w \in BOOLEAN : save_data(f, w)
    \/ \E f \in OpenPaths : open_data(f)

SpecPersist == Init /\ [][NextPersist]_vars

\* Building the method: the spin boxes of one technique may lack one parameter,
\* and the technique identifier may be none of the three
OneKeyLess(widgets) ==
    {widgets} \cup
    { [widgets EXCEPT ![t] = [k \in (DOMAIN widgets[t]) \ {gone} |-> widgets[t][k]]]
        : <<t, gone>> \in UNION { {<<t, k>> : k \in DOMAIN widgets[t]} : t \in DOMAIN widgets } }

InitBuild ==
    /\ current_data = EmptyTrace
    /\ origin = EmptyOrigin
    /\ arrived = <<>>
    /\ replaced = FALSE
    /\ statusBar = <<>>
    /\ connect_btn = "Connect Device"
    /\ start_btn = TRUE
    /\ technique_combo \in Techniques \cup {"XYZ"}
    /\ param_widgets \in OneKeyLess(Presets)
    /\ connected = FALSE
    /\ sdkMeasuring = FALSE
    /\ sweep = 0
    /\ measure_called = FALSE
    /\ cb = Idle
    /\ file = NoFile
    /\ savedTrace = EmptyTrace
    /\ closed = FALSE

NextBuild ==
    \/ \E t \in Techniques : update_parameters(t)
    \/ \E o \in MeasureOutcomes : start_measurement(o)
    \/ connect_device("found", "ok", "ok", FALSE)
    \/ \E k \in 0..MaxSweep : SdkDeliver(PairDelivery(k))
    \/ CallbackEntry
    \/ CallbackRefresh

SpecBuild == InitBuild /\ [][NextBuild]_vars

\* Connecting: every outcome of discovery, connect and disconnect, the window
\* closing, and a measurement running or not while that happens
NextConnect ==
    \/ \E dis \in {"raise", "none", "found"}, con \in Outcomes, disc \in Outcomes,
          still \in BOOLEAN : connect_device(dis, con, disc, still)
    \/ \E disc \in Outcomes : closeEvent(disc)
    \/ \E o \in MeasureOutcomes : start_measurement(o)
    \/ \E ok \in BOOLEAN : stop_measurement(ok)
    \/ \E k \in 0..MaxSweep : SdkDeliver(PairDelivery(k))
    \/ CallbackEntry
    \/ CallbackRefresh
    \/ SdkFinish

SpecConnect == Init /\ [][NextConnect]_vars

-----------------------------------------------------------------------------
(* Properties *)

\* the label is a string that holds the word, in any letter case
HasWord(word, type) == type.isStr /\ Contains(word, Lower(type.text))

\* this step appends v to column k, or leaves column k as it is
AppendedTo(k, v) ==
    /\ HasCol(current_data, k) /\ HasCol(current_data', k)
    /\ current_data'[k] = Append(current_data[k], v)
SameCol(k) ==
    /\ HasCol(current_data, k) <=> HasCol(current_data', k)
    /\ HasCol(current_data, k) => current_data'[k] = current_data[k]

HasBoth(d) == HasCol(d, "voltage") /\ HasCol(d, "current")

C2_StoreUntouched ==
    [][((\E o \in MeasureOutcomes : start_measurement(o))
          /\ ~connected /\ HasBoth(current_data)) =>
        /\ statusBar' = <<"No device connected">>
        /\ ~measure_called'
        /\ current_data' = current_data]_vars

IsPotentialSample(e) == HasWord(Potential, e.type)
IsCurrentSample(e) == ~HasWord(Potential, e.type) /\ HasWord(Current, e.type)
IsDroppedSample(e) == ~HasWord(Potential, e.type) /\ ~HasWord(Current, e.type)
ValuesOf(samples) == [i \in 1..Len(samples) |-> samples[i].value]

\* C3: since the last reset, and as long as no file was loaded, voltage is the
\* values of the samples taken whose label classifies as potential, in the
\* order they were taken, and current is the values of those that classify as
\* current; a sample that classifies as neither is in neither.
C3_ArrivalOrder ==
    ~replaced =>
        /\ DOMAIN current_data = {"voltage", "current"}
        /\ current_data["voltage"] = ValuesOf(SelectSeq(arrived, IsPotentialSample))
        /\ current_data["current"] = ValuesOf(SelectSeq(arrived, IsCurrentSample))

\* C3 witness: two potential samples and a current sample were taken after a
\* reset, and a sample that is neither
C3_TwoPointsTaken ==
    /\ ~replaced
    /\ Len(current_data["voltage"]) = 2
    /\ current_data["voltage"][1] # current_data["voltage"][2]
    /\ Len(current_data["current"]) >= 1
    /\ \E i \in 1..Len(arrived) : IsDroppedSample(arrived[i])

Loaded(filename) == <<"Data loaded from", filename>>
Saved(filename) == <<"Data saved to", filename>>

EqualLength(d) == HasBoth(d) /\ Len(d["voltage"]) = Len(d["current"])

\* C4: when open_data loads the file that save_data wrote from a trace whose
\* voltage and current had one length, the store becomes that trace again: the
\* same two lists, in the same order, under the same two keys.
C4_RoundTrip ==
    [][(open_data(SavedPath) /\ ~ReadRaises(file) /\ EqualLength(savedTrace)) =>
        current_data' = savedTrace]_vars

\* C4 witness: a trace of two rows, with a negative value in it, was saved and
\* loaded back
C4_TwoRowsLoadedBack ==
    /\ statusBar = Loaded(SavedPath)
    /\ EqualLength(savedTrace)
    /\ current_data = savedTrace
    /\ Len(current_data["voltage"]) = 2
    /\ current_data["voltage"] # current_data["current"]
    /\ \E i \in 1..2 : current_data["voltage"][i] < 0

\* the file has no column of that name
LacksColumn(f, k) == \A c \in 1..Len(f.header) : f.header[c] # k

\* C5 as claimed: open_data on a readable file without a voltage or without a
\* current column ends in an error status, not in "Data loaded from", and
\* leaves the store as it was.
C5_FormatError ==
    [][\A f \in OpenPaths \ {""} :
        (open_data(f) /\ ~ReadRaises(FileAt(f))
           /\ (LacksColumn(FileAt(f), "voltage") \/ LacksColumn(FileAt(f), "current"))) =>
        /\ statusBar' # Loaded(f)
        /\ current_data' = current_data]_vars

Min(a, b) == IF a < b THEN a ELSE b

\* C6 as claimed: save_data on a writable path, with no delivery in progress,
\* succeeds whatever the lengths of voltage and current, and writes as many
\* rows as the shorter of the two has, row r holding voltage[r] and current[r].
C6_TruncatingSave ==
    [][(save_data(SavedPath, TRUE) /\ cb.pc = "idle" /\ HasBoth(current_data)) =>
        /\ statusBar' = Saved(SavedPath)
        /\ Len(file'.rows) = Min(Len(current_data["voltage"]), Len(current_data["current"]))
        /\ \A r \in 1..Len(file'.rows) :
              file'.rows[r] = <<FormatFloat(current_data["voltage"][r]),
                                FormatFloat(current_data["current"][r])>>]_vars

\* a sample the callback can classify
WellFormed(e) == HasWord(Potential, e.type) \/ HasWord(Current, e.type)

\* C7 as claimed: a sample that raises inside new_data_callback leaves a status
\* message, and the callback does not return while a well-formed sample of the
\* same delivery is still to be taken.
C7_NoSampleLost ==
    [][(CallbackEntry /\ Classify(current_data, cb.new_data[cb.idx].type) = "raise") =>
        /\ statusBar' = <<"Error in data callback">>
        /\ cb'.pc = "idle" =>
              \A i \in (cb.idx + 1)..Len(cb.new_data) : ~WellFormed(cb.new_data[i])]_vars

\* every spin box that create_parameter_groups gives the selected technique is there
AllParametersPresent ==
    /\ technique_combo \in DOMAIN Presets
    /\ technique_combo \in DOMAIN param_widgets
    /\ DOMAIN Presets[technique_combo] \subseteq DOMAIN param_widgets[technique_combo]

\* C8: start_measurement builds the method when the technique is DPV, CV or SWV
\* and all its parameters are present: it then resets the store and, when
\* connected, calls manager.measure.  When a parameter is missing or the
\* technique is none of the three it shows "Error starting measurement", does
\* not call manager.measure, and leaves the store and the session as they were.
C8_BuildMethod ==
    [][(\E o \in MeasureOutcomes : start_measurement(o)) =>
        IF AllParametersPresent
        THEN /\ (connected <=> measure_called')
             /\ (~connected => statusBar' = <<"No device connected">>)
             /\ \A k \in DOMAIN current_data' : Len(current_data'[k]) = 0
        ELSE /\ statusBar' = <<"Error starting measurement">>
             /\ ~measure_called'
             /\ current_data' = current_data
             /\ sdkMeasuring' = sdkMeasuring /\ sweep' = sweep]_vars

\* C8 witness: the method could not be built, with samples in the store and
\* the session connected
C8_BuildFailedStoreKept ==
    /\ ~AllParametersPresent
    /\ statusBar = <<"Error starting measurement">>
    /\ ~measure_called
    /\ connected
    /\ HasBoth(current_data)
    /\ Len(current_data["voltage"]) > 0

\* C9 as claimed: no value in the store was produced by a measurement earlier
\* than the one start_measurement last started.
C9_OnlyLatestMeasurement ==
    \A k \in DOMAIN origin : \A i \in 1..Len(origin[k]) : ~origin[k][i]

\* the callback has taken a sample of its delivery and has another to take
MidDelivery == cb.pc = "loop" /\ 1 < cb.idx /\ cb.idx <= Len(cb.new_data)

\* this step puts a new dictionary in place of self.current_data
StoreReplaced ==
    \/ /\ \E o \in MeasureOutcomes : start_measurement(o)
       /\ BuildMethod(technique_combo, param_widgets) # Raise
    \/ \E f \in OpenPaths \ {""} : open_data(f) /\ ~ReadRaises(FileAt(f))

\* C10 as claimed: the store is never reset or replaced while the callback is
\* in the middle of a delivery.
C10_SingleOwner ==
    [][MidDelivery => ~StoreReplaced]_vars

\* the toggle button reads what the session is
ToggleAgrees ==
    /\ (connect_btn = "Disconnect") <=> connected
    /\ (connect_btn = "Connect Device") <=> ~connected

\* the Start Measurement button is enabled exactly when the session is connected
StartAgrees == start_btn <=> connected

\* this step is a press of the toggle button, or the window closing
ConnectionStep ==
    \/ \E dis \in {"raise", "none", "found"}, con \in Outcomes, disc \in Outcomes,
          still \in BOOLEAN : connect_device(dis, con, disc, still)
    \/ \E disc \in Outcomes : closeEvent(disc)

\* C11 as claimed: as long as the window is open, the toggle button reads
\* "Disconnect" exactly when the session is connected and "Connect Device"
\* exactly when it is not, the Start Measurement button is enabled exactly when
\* the session is connected (from the initial state on), and the session
\* changes only in a connect_device press or in closeEvent.
C11_ViewAgrees ==
    /\ [](~closed => ToggleAgrees /\ StartAgrees)
    /\ [][connected' # connected => ConnectionStep]_vars

\* C11, the part about the toggle button: it reads what the session is
C11_ToggleAgrees == ~closed => ToggleAgrees

\* C11, the part about the session: it changes only in a connect_device press
\* or in closeEvent
C11_SessionChangesInPress ==
    [][connected' # connected => ConnectionStep]_vars

\* C11, the part about the Start Measurement button once the toggle button was
\* pressed with success: from then on it is enabled exactly when connected
C11_StartAgreesAfterPress ==
    [][(ConnectionStep /\ connected' # connected /\ ~closed') => StartAgrees']_vars

====
